---- MODULE Spec2Model ----
(***************************************************************************)
(* Model of the lock-service client session (src/src/client.ts, class      *)
(* GearlockClient, lines 314-592) together with its transport events and,  *)
(* for the two-session scenarios of the test suite, a lock server that     *)
(* grants one write resource exclusively and in request order.             *)
(*                                                                         *)
(* JavaScript runs every handler to its next suspension point atomically.  *)
(* An operation is therefore a small process: its synchronous prefix (the  *)
(* *Call actions), the continuation after the wake-up event (Resume) and   *)
(* the continuation that examines the response it has read (Body).         *)
(***************************************************************************)
EXTENDS Naturals, Sequences, FiniteSets

VARIABLES
  ws,            \* per session: this.ws and the socket's readyState
  wsError,       \* per session: this.wsError ("none" = undefined)
  currentState,  \* per session: this._currentState
  lockId,        \* per session: this._lockId (0 = undefined)
  responseQueue, \* per session: this.responseQueue
  listeners,     \* per session: once-listeners of EVENT_NEXT, in registration order
  woken,         \* per session: waiters whose promise is resolved, not yet resumed
  ops,           \* per session and call slot: the operation in progress
  outbox,        \* per session: requests sent on the transport, not yet handled
  lastClose,     \* per session: code of the latest ws.close(code) call (0 = never)
  inflight,      \* per session: server messages on the wire
  holder,        \* server: session holding the write resource
  waitq,         \* server: sessions enqueued behind the holder
  srvId,         \* server: id of each session's current lock request
  nextId         \* server: next lock id to hand out

vars == <<ws, wsError, currentState, lockId, responseQueue, listeners, woken,
          ops, outbox, lastClose, inflight, holder, waitq, srvId, nextId>>

clientVars == <<ws, wsError, currentState, lockId, responseQueue, listeners,
                woken, ops, outbox, lastClose>>
serverVars == <<inflight, holder, waitq, srvId, nextId>>

----------------------------------------------------------------------------
(* Bounds *)
MaxId == 2       \* lock ids an arbitrary peer may put in a message
MaxQueue == 2    \* unconsumed messages per session, lock server
MaxBurst == 1    \* unconsumed messages per session, arbitrary peer
MaxOut == 1      \* unhandled requests per session
MaxLocks == 3    \* LOCK requests the server answers in one run

(* Program constants *)
WS_NORMAL_CLOSE == 1000
WS_ABNORMAL_CLOSE == 3000

Sessions == {"A", "B"}
Peers == {"A"}            \* sessions driven against an arbitrary peer
Slots == {"m", "a"}       \* "a": the acquire() call, "m": every other call

LOCK == "lock"
RELEASE == "release"
READY == "ready"
ENQUEUED == "enqueued"
ACQUIRED == "acquired"
ACTION_ENUM == {LOCK, RELEASE}
STATE_ENUM == {READY, ENQUEUED, ACQUIRED}

ResponseMessage == [id : 1..MaxId, action : ACTION_ENUM, state : STATE_ENUM]
NoMsg == [id |-> 0, action |-> "none", state |-> "none"]
\* The JSON text "null" parses, to a value that is falsy.
NullMsg == [id |-> 0, action |-> "null", state |-> "null"]
\* A text frame parses to a response message or to null, or does not parse.
Malformed == [wellFormed |-> FALSE, msg |-> NoMsg]
Payloads ==
  [wellFormed : {TRUE}, msg : ResponseMessage \cup {NullMsg}] \cup {Malformed}

UsageErrors == {"NotInitialised", "NoResources", "CannotLock", "CannotRelease"}
\* the three messages of raiseProtocolError
ProtocolErrors == {"UnexpectedAction", "UnexpectedState", "UnexpectedId"}
TransportErrors == {"ErrEvent", "CloseEvent", "Decode"}

\* An operation: which method, where it is suspended, the response it holds
\* while it examines it, how many responses it has taken from the queue, and
\* how its promise settled (err: the error thrown, ret: the value returned);
\* at: the state and the lock id of the session when the operation was called,
\* kept while it is suspended.
NoCall == <<"none", 0>>
IdleOp == [kind |-> "none", pc |-> "idle", resp |-> NoMsg, reads |-> 0,
           err |-> "none", ret |-> "none", at |-> NoCall]

----------------------------------------------------------------------------
Init ==
  /\ ws = [s \in Sessions |-> "none"]
  /\ wsError = [s \in Sessions |-> "none"]
  /\ currentState = [s \in Sessions |-> READY]
  /\ lockId = [s \in Sessions |-> 0]
  /\ responseQueue = [s \in Sessions |-> <<>>]
  /\ listeners = [s \in Sessions |-> <<>>]
  /\ woken = [s \in Sessions |-> <<>>]
  /\ ops = [s \in Sessions |-> [k \in Slots |-> IdleOp]]
  /\ outbox = [s \in Sessions |-> <<>>]
  /\ lastClose = [s \in Sessions |-> 0]
  /\ inflight = [s \in Sessions |-> <<>>]
  /\ holder = "none"
  /\ waitq = <<>>
  /\ srvId = [s \in Sessions |-> 0]
  /\ nextId = 1

----------------------------------------------------------------------------
(* Helpers *)
SetOp(s, k, rec) == [ops EXCEPT ![s][k] = rec]

\* throw before any response was read
Throw(kind, e) == [kind |-> kind, pc |-> "done", resp |-> NoMsg, reads |-> 0,
                   err |-> e, ret |-> "none", at |-> NoCall]

\* throw from an operation that has been suspended
ThrowFrom(o, e) ==
  [o EXCEPT !.pc = "done", !.resp = NoMsg, !.err = e, !.at = NoCall]

\* return; every operation of the client returns undefined
Resolve(kind) == [kind |-> kind, pc |-> "done", resp |-> NoMsg, reads |-> 0,
                  err |-> "none", ret |-> "undefined", at |-> NoCall]

ResolveFrom(o) ==
  [o EXCEPT !.pc = "done", !.resp = NoMsg, !.ret = "undefined", !.at = NoCall]

Got(kind, reads, m, at) ==
  [kind |-> kind, pc |-> "got", resp |-> m, reads |-> reads, err |-> "none",
   ret |-> "none", at |-> at]

Waiting(kind, reads, at) ==
  [kind |-> kind, pc |-> "wait", resp |-> NoMsg, reads |-> reads, err |-> "none",
   ret |-> "none", at |-> at]

\* The state and the lock id at the call of the operation in slot k: those of
\* now when it makes its first read, which is in the step of the call.
CalledAt(s, k, reads) ==
  IF reads = 0 THEN <<currentState[s], lockId[s]>> ELSE ops[s][k].at

\* No continuation of session s is queued as a microtask, neither that of a
\* waiter that was woken nor that of an operation that holds a response: only
\* then can the event loop run a transport event handler or the caller's code.
NoMicrotask(s) ==
  /\ woken[s] = <<>>
  /\ \A k \in Slots : ops[s][k].pc # "got"

\* (mutant) checkError() without the test of this.wsError
checkErrorIgnoresLatch(s) ==
  IF ws[s] = "none" THEN "NotInitialised" ELSE "none"

\* checkError(): the error it throws, "none" when it returns.
checkError(s) ==
  IF ws[s] = "none" THEN "NotInitialised" ELSE wsError[s]

\* (mutant) sendRequest() handing the frame to the socket twice
sendRequestTwice(s, req) ==
  IF ws[s] = "open" THEN Append(Append(outbox[s], req), req) ELSE outbox[s]

\* sendRequest(msg): ws.send hands the frame to an open socket; a socket that
\* is closing or closed discards it.
sendRequest(s, req) ==
  IF ws[s] = "open" THEN Append(outbox[s], req) ELSE outbox[s]

\* ws.close(code)
wsClose(s, code) ==
  /\ lastClose' = [lastClose EXCEPT ![s] = code]
  /\ ws' = [ws EXCEPT ![s] = IF @ = "open" THEN "closing" ELSE @]

\* (mutant) raiseProtocolError() closing with the normal code
raiseProtocolErrorNormalCode(s, k, e) ==
  /\ wsClose(s, WS_NORMAL_CLOSE)
  /\ ops' = SetOp(s, k, ThrowFrom(ops[s][k], e))

\* raiseProtocolError(msg): close the transport, then throw.
raiseProtocolError(s, k, e) ==
  /\ wsClose(s, WS_ABNORMAL_CLOSE)
  /\ ops' = SetOp(s, k, ThrowFrom(ops[s][k], e))

\* this.responseQueue.shift(): the value returned (NoMsg for undefined) and the
\* queue left.
shift(q) == IF q = <<>> THEN NoMsg ELSE Head(q)
shifted(q) == IF q = <<>> THEN q ELSE Tail(q)

\* if (nextResponse): the value is neither undefined nor null
Truthy(m) == m \notin {NoMsg, NullMsg}

\* readResponse() up to its first suspension: shift the queue and return what
\* was taken, or subscribe to EVENT_NEXT when that is nothing or falsy.
\* reads: the responses the operation has been given so far.
readResponse(s, k, kind, reads) ==
  IF checkError(s) # "none"
  THEN /\ ops' = SetOp(s, k, Throw(kind, checkError(s)))
       /\ UNCHANGED <<responseQueue, listeners>>
  ELSE /\ responseQueue' = [responseQueue EXCEPT ![s] = shifted(@)]
       /\ IF Truthy(shift(responseQueue[s]))
          THEN /\ ops' = SetOp(s, k, Got(kind, reads + 1, shift(responseQueue[s]),
                                         CalledAt(s, k, reads)))
               /\ UNCHANGED listeners
          ELSE /\ ops' = SetOp(s, k, Waiting(kind, reads, CalledAt(s, k, reads)))
               /\ listeners' = [listeners EXCEPT ![s] = Append(@, k)]

\* doRequest(msg) up to its first suspension.
doRequest(s, k, kind, req) ==
  IF checkError(s) # "none"
  THEN /\ ops' = SetOp(s, k, Throw(kind, checkError(s)))
       /\ UNCHANGED <<responseQueue, listeners, outbox>>
  ELSE /\ outbox' = [outbox EXCEPT ![s] = sendRequest(s, req)]
       /\ readResponse(s, k, kind, 0)

----------------------------------------------------------------------------
(* Public operations: the synchronous prefix of each call *)

\* connect() on a fresh session: a new socket; the handlers are installed when
\* it opens.
ConnectCall(s) ==
  /\ ws[s] = "none"
  /\ ws' = [ws EXCEPT ![s] = "connecting"]
  /\ wsError' = [wsError EXCEPT ![s] = "none"]
  /\ UNCHANGED <<currentState, lockId, responseQueue, listeners, woken, ops,
                 outbox, lastClose, serverVars>>

\* (mutant) lock() without the test of the current state
lockUsageErrorNoStateCheck(s, n) ==
  IF n = 0 THEN "NoResources" ELSE "none"

\* (mutant) acquire() without its early return
alreadyAcquiredNever(s) == FALSE

\* (mutant) release() without the test of the current state
releaseUsageErrorNone(s) == "none"

\* The preconditions of lock(), acquire()'s early return and the precondition
\* of release().
lockUsageError(s, n) ==
  IF n = 0 THEN "NoResources"
  ELSE IF currentState[s] # READY THEN "CannotLock"
  ELSE "none"

alreadyAcquired(s) == currentState[s] = ACQUIRED

releaseUsageError(s) ==
  IF currentState[s] = READY THEN "CannotRelease" ELSE "none"

\* lock(...resources), n = resources.length
LockCall(s, n) ==
  /\ ops[s]["m"].pc = "idle"
  /\ ws[s] # "connecting"
  /\ Len(outbox[s]) < MaxOut
  /\ IF checkError(s) # "none"
     THEN /\ ops' = SetOp(s, "m", Throw("lock", checkError(s)))
          /\ UNCHANGED <<responseQueue, listeners, outbox>>
     ELSE IF lockUsageError(s, n) # "none"
     THEN /\ ops' = SetOp(s, "m", Throw("lock", lockUsageError(s, n)))
          /\ UNCHANGED <<responseQueue, listeners, outbox>>
     ELSE doRequest(s, "m", "lock", [action |-> LOCK, n |-> n])
  /\ UNCHANGED <<ws, wsError, currentState, lockId, woken, lastClose, serverVars>>

\* acquire()
AcquireCall(s) ==
  /\ ops[s]["a"].pc = "idle"
  /\ ws[s] # "connecting"
  /\ IF checkError(s) # "none"
     THEN /\ ops' = SetOp(s, "a", Throw("acquire", checkError(s)))
          /\ UNCHANGED <<responseQueue, listeners>>
     ELSE IF alreadyAcquired(s)
     THEN /\ ops' = SetOp(s, "a", Resolve("acquire"))
          /\ UNCHANGED <<responseQueue, listeners>>
     ELSE readResponse(s, "a", "acquire", 0)
  /\ UNCHANGED <<ws, wsError, currentState, lockId, woken, outbox, lastClose,
                 serverVars>>

\* release()
ReleaseCall(s) ==
  /\ ops[s]["m"].pc = "idle"
  /\ ws[s] # "connecting"
  /\ Len(outbox[s]) < MaxOut
  /\ IF checkError(s) # "none"
     THEN /\ ops' = SetOp(s, "m", Throw("release", checkError(s)))
          /\ UNCHANGED <<responseQueue, listeners, outbox>>
     ELSE IF releaseUsageError(s) # "none"
     THEN /\ ops' = SetOp(s, "m", Throw("release", releaseUsageError(s)))
          /\ UNCHANGED <<responseQueue, listeners, outbox>>
     ELSE doRequest(s, "m", "release", [action |-> RELEASE, n |-> 0])
  /\ UNCHANGED <<ws, wsError, currentState, lockId, woken, lastClose, serverVars>>

\* close()
CloseCall(s) ==
  /\ ops[s]["m"].pc = "idle"
  /\ ws[s] # "connecting"
  /\ IF checkError(s) # "none"
     THEN /\ ops' = SetOp(s, "m", Throw("close", checkError(s)))
          /\ UNCHANGED <<ws, lastClose>>
     ELSE /\ wsClose(s, WS_NORMAL_CLOSE)
          /\ ops' = SetOp(s, "m", Resolve("close"))
  /\ UNCHANGED <<wsError, currentState, lockId, responseQueue, listeners, woken,
                 outbox, serverVars>>

\* The caller has observed the settled promise of the call in slot k.
Return(s, k) ==
  /\ ops[s][k].pc = "done"
  /\ ops' = SetOp(s, k, IdleOp)
  /\ UNCHANGED <<ws, wsError, currentState, lockId, responseQueue, listeners,
                 woken, outbox, lastClose, serverVars>>

----------------------------------------------------------------------------
(* Continuations *)

\* readResponse() after waitForResponse() has resolved: the waiters resume in
\* the order in which they subscribed.
Resume(s) ==
  /\ woken[s] # <<>>
  /\ LET k == Head(woken[s])
         o == ops[s][k]
     IN /\ responseQueue' = [responseQueue EXCEPT ![s] = shifted(@)]
        /\ IF Truthy(shift(responseQueue[s]))
           THEN ops' = SetOp(s, k, Got(o.kind, o.reads + 1, shift(responseQueue[s]),
                                      o.at))
           ELSE ops' = SetOp(s, k, ThrowFrom(o, "NoResponse"))
  /\ woken' = [woken EXCEPT ![s] = Tail(@)]
  /\ UNCHANGED <<ws, wsError, currentState, lockId, listeners, outbox,
                 lastClose, serverVars>>

\* The checks each operation makes on the response it has read, in the order
\* of the code: the protocol error raised, "none" when the response passes.
\* (mutant) lock() without the test of the response's state
lockViolationActionOnly(r) ==
  IF r.action # LOCK THEN "UnexpectedAction" ELSE "none"

lockViolation(r) ==
  IF r.action # LOCK THEN "UnexpectedAction"
  ELSE IF r.state = READY THEN "UnexpectedState"
  ELSE "none"

\* (mutant) acquire() with the comparison of the ids inverted
acquireViolationIdInverted(s, r) ==
  IF r.action # LOCK THEN "UnexpectedAction"
  ELSE IF r.state # ACQUIRED THEN "UnexpectedState"
  ELSE IF lockId[s] # 0 /\ r.id = lockId[s] THEN "UnexpectedId"
  ELSE "none"

\* (mutant) acquire() without the test of the message's state
acquireViolationNoStateCheck(s, r) ==
  IF r.action # LOCK THEN "UnexpectedAction"
  ELSE IF lockId[s] # 0 /\ r.id # lockId[s] THEN "UnexpectedId"
  ELSE "none"

acquireViolation(s, r) ==
  IF r.action # LOCK THEN "UnexpectedAction"
  ELSE IF r.state # ACQUIRED THEN "UnexpectedState"
  ELSE IF lockId[s] # 0 /\ r.id # lockId[s] THEN "UnexpectedId"
  ELSE "none"

\* (mutant) the stale ACQUIRED is not recognised when the session is ENQUEUED
releaseSkipWrongState(s, r) ==
  /\ r.action = LOCK
  /\ r.id = lockId[s]
  /\ r.state = ACQUIRED
  /\ currentState[s] = ACQUIRED

\* (mutant) release() never takes a response for the stale ACQUIRED
releaseSkipNever(s, r) == FALSE

releaseSkip(s, r) ==
  /\ r.action = LOCK
  /\ r.id = lockId[s]
  /\ r.state = ACQUIRED
  /\ currentState[s] = ENQUEUED

releaseViolation(s, r) ==
  IF r.id # lockId[s] THEN "UnexpectedId"
  ELSE IF r.action # RELEASE THEN "UnexpectedAction"
  ELSE IF r.state # READY THEN "UnexpectedState"
  ELSE IF lockId[s] # 0 /\ r.id # lockId[s] THEN "UnexpectedId"
  ELSE "none"

\* The success path: this._currentState = response.state; this._lockId = response.id
\* (mutant) the success path without the assignment of the state
AcceptKeepsState(s, k) ==
  /\ lockId' = [lockId EXCEPT ![s] = ops[s][k].resp.id]
  /\ ops' = SetOp(s, k, ResolveFrom(ops[s][k]))
  /\ UNCHANGED <<currentState, ws, lastClose>>

\* (mutant) the success path without the assignment of the lock id
AcceptKeepsLockId(s, k) ==
  /\ currentState' = [currentState EXCEPT ![s] = ops[s][k].resp.state]
  /\ ops' = SetOp(s, k, ResolveFrom(ops[s][k]))
  /\ UNCHANGED <<lockId, ws, lastClose>>

Accept(s, k) ==
  /\ currentState' = [currentState EXCEPT ![s] = ops[s][k].resp.state]
  /\ lockId' = [lockId EXCEPT ![s] = ops[s][k].resp.id]
  /\ ops' = SetOp(s, k, ResolveFrom(ops[s][k]))
  /\ UNCHANGED <<ws, lastClose>>

\* (mutant) the state and the id of the response are recorded before the
\* protocol error is raised
RejectAfterAssign(s, k, e) ==
  /\ raiseProtocolError(s, k, e)
  /\ currentState' = [currentState EXCEPT ![s] = ops[s][k].resp.state]
  /\ lockId' = [lockId EXCEPT ![s] = ops[s][k].resp.id]

Reject(s, k, e) ==
  /\ raiseProtocolError(s, k, e)
  /\ UNCHANGED <<currentState, lockId>>

\* lock() after doRequest() has returned or thrown.
LockBody(s) ==
  /\ ops[s]["m"].pc = "got"
  /\ ops[s]["m"].kind = "lock"
  /\ LET r == ops[s]["m"].resp
     IN IF checkError(s) # "none"
        THEN /\ ops' = SetOp(s, "m", ThrowFrom(ops[s]["m"], checkError(s)))
             /\ UNCHANGED <<currentState, lockId, ws, lastClose>>
        ELSE IF lockViolation(r) # "none"
        THEN Reject(s, "m", lockViolation(r))
        ELSE Accept(s, "m")
  /\ UNCHANGED <<wsError, responseQueue, listeners, woken, outbox, serverVars>>

\* acquire() after readResponse() has returned.
AcquireBody(s) ==
  /\ ops[s]["a"].pc = "got"
  /\ ops[s]["a"].kind = "acquire"
  /\ LET r == ops[s]["a"].resp
     IN IF acquireViolation(s, r) # "none"
        THEN Reject(s, "a", acquireViolation(s, r))
        ELSE Accept(s, "a")
  /\ UNCHANGED <<wsError, responseQueue, listeners, woken, outbox, serverVars>>

\* release() after doRequest() has returned or thrown: either the response is
\* the stale ACQUIRED of the lock being released, and the next one is read, or
\* it is examined.
ReleaseFirst(s) ==
  /\ ops[s]["m"].pc = "got"
  /\ ops[s]["m"].kind = "release"
  /\ ops[s]["m"].reads = 1
  /\ LET r == ops[s]["m"].resp
     IN IF checkError(s) # "none"
        THEN /\ ops' = SetOp(s, "m", ThrowFrom(ops[s]["m"], checkError(s)))
             /\ UNCHANGED <<currentState, lockId, ws, lastClose, responseQueue,
                            listeners>>
        ELSE IF releaseSkip(s, r)
        THEN /\ readResponse(s, "m", "release", 1)
             /\ UNCHANGED <<currentState, lockId, ws, lastClose>>
        ELSE IF releaseViolation(s, r) # "none"
        THEN /\ Reject(s, "m", releaseViolation(s, r))
             /\ UNCHANGED <<responseQueue, listeners>>
        ELSE /\ Accept(s, "m")
             /\ UNCHANGED <<responseQueue, listeners>>
  /\ UNCHANGED <<wsError, woken, outbox, serverVars>>

\* release() after the second readResponse() has returned.
ReleaseSecond(s) ==
  /\ ops[s]["m"].pc = "got"
  /\ ops[s]["m"].kind = "release"
  /\ ops[s]["m"].reads = 2
  /\ LET r == ops[s]["m"].resp
     IN IF releaseViolation(s, r) # "none"
        THEN Reject(s, "m", releaseViolation(s, r))
        ELSE Accept(s, "m")
  /\ UNCHANGED <<wsError, responseQueue, listeners, woken, outbox, serverVars>>

----------------------------------------------------------------------------
(* Transport events *)

\* ws.onopen: handleConnectionErrors(); handleIncomingMessages(); resolve()
OnOpen(s) ==
  /\ ws[s] = "connecting"
  /\ ws' = [ws EXCEPT ![s] = "open"]
  /\ UNCHANGED <<wsError, currentState, lockId, responseQueue, listeners, woken,
                 ops, outbox, lastClose, serverVars>>

\* ws.onerror while connecting: reject(err); no handler of the session is installed.
OnOpenError(s) ==
  /\ ws[s] = "connecting"
  /\ ws' = [ws EXCEPT ![s] = "closed"]
  /\ UNCHANGED <<wsError, currentState, lockId, responseQueue, listeners, woken,
                 ops, outbox, lastClose, serverVars>>

\* JSON.parse(event.data.toString())
JSONparse(p) == IF p.wellFormed THEN p.msg ELSE NoMsg

\* (mutant) ws.onmessage pushing whatever the frame holds, without the catch
OnMessageQueuesAll(s, p) ==
  /\ ws[s] \in {"open", "closing"}
  /\ NoMicrotask(s)
  /\ responseQueue' = [responseQueue EXCEPT ![s] = Append(@, JSONparse(p))]
  /\ woken' = [woken EXCEPT ![s] = @ \o listeners[s]]
  /\ listeners' = [listeners EXCEPT ![s] = <<>>]
  /\ UNCHANGED <<wsError, ws, currentState, lockId, ops, outbox, lastClose>>

\* ws.onmessage
OnMessage(s, p) ==
  /\ ws[s] \in {"open", "closing"}
  /\ NoMicrotask(s)
  /\ IF p.wellFormed
     THEN /\ responseQueue' = [responseQueue EXCEPT ![s] = Append(@, JSONparse(p))]
          /\ woken' = [woken EXCEPT ![s] = @ \o listeners[s]]
          /\ listeners' = [listeners EXCEPT ![s] = <<>>]
          /\ UNCHANGED wsError
     ELSE /\ wsError' = [wsError EXCEPT ![s] = "Decode"]
          /\ UNCHANGED <<responseQueue, woken, listeners>>
  /\ UNCHANGED <<ws, currentState, lockId, ops, outbox, lastClose>>

\* ws.onerror: the connection has failed; the socket delivers nothing more and
\* reports its close next.
OnError(s) ==
  /\ ws[s] \in {"open", "closing"}
  /\ NoMicrotask(s)
  /\ wsError' = [wsError EXCEPT ![s] = "ErrEvent"]
  /\ ws' = [ws EXCEPT ![s] = "failed"]
  /\ UNCHANGED <<currentState, lockId, responseQueue, listeners, woken, ops,
                 outbox, lastClose, serverVars>>

\* ws.onclose
OnClose(s) ==
  /\ ws[s] \in {"open", "closing", "failed"}
  /\ NoMicrotask(s)
  /\ wsError' = [wsError EXCEPT ![s] = "CloseEvent"]
  /\ ws' = [ws EXCEPT ![s] = "closed"]
  /\ UNCHANGED <<currentState, lockId, responseQueue, listeners, woken, ops,
                 outbox, lastClose, serverVars>>

----------------------------------------------------------------------------
(* An arbitrary peer: it may send any frame and reads the requests *)

PeerMessage(s) ==
  /\ Len(responseQueue[s]) < MaxBurst
  /\ \E p \in Payloads : OnMessage(s, p)
  /\ UNCHANGED serverVars

PeerRead(s) ==
  /\ outbox[s] # <<>>
  /\ outbox' = [outbox EXCEPT ![s] = Tail(@)]
  /\ UNCHANGED <<ws, wsError, currentState, lockId, responseQueue, listeners,
                 woken, ops, lastClose, serverVars>>

----------------------------------------------------------------------------
(* The lock server: one write resource, granted exclusively, in request order *)

Response(id, action, state) == [id |-> id, action |-> action, state |-> state]

Remove(q, s) == SelectSeq(q, LAMBDA x : x # s)

\* LOCK requests sent so far
LocksSent ==
  (nextId - 1) +
  Cardinality({s \in Sessions : outbox[s] # <<>> /\ Head(outbox[s]).action = LOCK})

ServerLock(s) ==
  /\ outbox[s] # <<>>
  /\ Head(outbox[s]).action = LOCK
  /\ outbox' = [outbox EXCEPT ![s] = Tail(@)]
  /\ srvId' = [srvId EXCEPT ![s] = nextId]
  /\ nextId' = nextId + 1
  /\ IF holder = "none" /\ waitq = <<>>
     THEN /\ holder' = s
          /\ waitq' = waitq
          /\ inflight' = [inflight EXCEPT ![s] = Append(@, Response(nextId, LOCK, ACQUIRED))]
     ELSE /\ holder' = holder
          /\ waitq' = Append(waitq, s)
          /\ inflight' = [inflight EXCEPT ![s] = Append(@, Response(nextId, LOCK, ENQUEUED))]
  /\ UNCHANGED <<ws, wsError, currentState, lockId, responseQueue, listeners,
                 woken, ops, lastClose>>

ServerRelease(s) ==
  /\ outbox[s] # <<>>
  /\ Head(outbox[s]).action = RELEASE
  /\ outbox' = [outbox EXCEPT ![s] = Tail(@)]
  /\ holder' = IF holder = s THEN "none" ELSE holder
  /\ waitq' = Remove(waitq, s)
  /\ inflight' = [inflight EXCEPT ![s] = Append(@, Response(srvId[s], RELEASE, READY))]
  /\ UNCHANGED <<srvId, nextId, ws, wsError, currentState, lockId, responseQueue,
                 listeners, woken, ops, lastClose>>

\* The resource is free: the first waiting session gets it and is notified.
ServerGrant ==
  /\ holder = "none"
  /\ waitq # <<>>
  /\ holder' = Head(waitq)
  /\ waitq' = Tail(waitq)
  /\ inflight' = [inflight EXCEPT ![Head(waitq)] =
                    Append(@, Response(srvId[Head(waitq)], LOCK, ACQUIRED))]
  /\ UNCHANGED <<srvId, nextId, clientVars>>

\* The transport hands the oldest frame on the wire to ws.onmessage.
Deliver(s) ==
  /\ inflight[s] # <<>>
  /\ Len(responseQueue[s]) < MaxQueue
  /\ OnMessage(s, [wellFormed |-> TRUE, msg |-> Head(inflight[s])])
  /\ inflight' = [inflight EXCEPT ![s] = Tail(@)]
  /\ UNCHANGED <<holder, waitq, srvId, nextId>>

----------------------------------------------------------------------------
(* Callers *)

BothIdle(s) == \A k \in Slots : ops[s][k].pc = "idle"

\* Every call is awaited before the next one is made.
SeqLock(s) == BothIdle(s) /\ LocksSent < MaxLocks /\ LockCall(s, 1)
SeqAcquire(s) == BothIdle(s) /\ AcquireCall(s)
SeqRelease(s) == BothIdle(s) /\ ReleaseCall(s)

\* acquire() is suspended in waitForResponse() and has not been woken
AcquireWaiting(s) ==
  /\ ops[s]["a"].kind = "acquire"
  /\ ops[s]["a"].pc = "wait"
  /\ ops[s]["m"].pc = "idle"
  /\ NoMicrotask(s)

\* const p = acquire(); await release(); await p
RaceRelease(s) ==
  /\ AcquireWaiting(s)
  /\ currentState[s] = ENQUEUED
  /\ ReleaseCall(s)

----------------------------------------------------------------------------
(* Specifications *)

\* The event loop runs one queued continuation of session s.
ClientStep(s) ==
  \/ Resume(s)
  \/ LockBody(s)
  \/ AcquireBody(s)
  \/ ReleaseFirst(s)
  \/ ReleaseSecond(s)

\* The peer has read every request the session has sent.
PeerHasRead(s) == outbox[s] = <<>>

\* One session against an arbitrary peer.  Calls are awaited one at a time,
\* except that release() and close() may be called while acquire() is waiting;
\* the peer reads a request before the caller makes the next call that sends.
Next ==
  \E s \in Peers :
    \/ ConnectCall(s)
    \/ OnOpen(s)
    \/ OnOpenError(s)
    \/ BothIdle(s) /\ PeerHasRead(s) /\ \E n \in 0..1 : LockCall(s, n)
    \/ BothIdle(s) /\ AcquireCall(s)
    \/ (BothIdle(s) \/ AcquireWaiting(s)) /\ PeerHasRead(s) /\ ReleaseCall(s)
    \/ (BothIdle(s) \/ AcquireWaiting(s)) /\ CloseCall(s)
    \/ \E k \in Slots : Return(s, k)
    \/ ClientStep(s)
    \/ PeerMessage(s)
    \/ PeerRead(s)
    \/ OnError(s)
    \/ OnClose(s)

Spec == Init /\ [][Next]_vars

\* Two sessions against the lock server over a healthy transport, every call
\* awaited before the next.
ServerStep ==
  \/ ServerGrant
  \/ \E s \in Sessions :
       \/ ServerLock(s)
       \/ ServerRelease(s)
       \/ Deliver(s)


SeqNext ==
  \/ ServerStep
  \/ \E s \in Sessions :
       \/ ConnectCall(s)
       \/ OnOpen(s)
       \/ SeqLock(s)
       \/ SeqAcquire(s)
       \/ SeqRelease(s)
       \/ \E k \in Slots : Return(s, k)
       \/ ClientStep(s)

SpecSeq == Init /\ [][SeqNext]_vars

\* The event loop runs every queued continuation, the transport delivers and
\* the server handles every request.
Fairness ==
  /\ WF_vars(ServerGrant)
  /\ \A s \in Sessions :
       /\ WF_vars(ServerLock(s))
       /\ WF_vars(ServerRelease(s))
       /\ WF_vars(Deliver(s))
       /\ WF_vars(ClientStep(s))

FairSeq == SpecSeq /\ Fairness

\* As SpecSeq, and release() may be called while acquire() is waiting.
RaceNext ==
  \/ SeqNext
  \/ \E s \in Sessions : RaceRelease(s)

SpecRace == Init /\ [][RaceNext]_vars

----------------------------------------------------------------------------
(* Claims *)

\* The call in slot k of session s settles in this step.
Settles(s, k) == ops[s][k].pc \in {"wait", "got"} /\ ops'[s][k].pc = "done"

\* The call in slot k of session s is made in this step.
Called(s, k) == ops[s][k].pc = "idle" /\ ops'[s][k].pc # "idle"

\* release() was called while acquire() was waiting, and has not been collected.
Raced(s) ==
  /\ ops[s]["a"].kind = "acquire"
  /\ ops[s]["m"].kind = "release"
  /\ ops[s]["m"].pc # "idle"

\* C1: when release() is called while acquire() is waiting on an ENQUEUED
\* session, the acquire() settles with result false and without an error, and
\* the release() settles without an error.
C1_ReleaseSupersedesAcquire ==
  \A s \in Sessions :
    Raced(s) =>
      /\ ops[s]["a"].pc = "done" =>
           (ops[s]["a"].err = "none" /\ ops[s]["a"].ret = "false")
      /\ ops[s]["m"].pc = "done" => ops[s]["m"].err = "none"

StaleAcquired(s) == [id |-> lockId[s], action |-> LOCK, state |-> ACQUIRED]
ReleaseAck(s) == [id |-> lockId[s], action |-> RELEASE, state |-> READY]

\* C2: release() on an ENQUEUED session that has read the ACQUIRED notification
\* of its current lock id discards it and reads the next message (at once if
\* a response is queued, after waiting if none is); if that message is the RELEASE
\* acknowledgment of the same id, release() settles without error and the
\* state is READY.  No transport error is latched meanwhile.
C2_StaleAcquiredDiscarded ==
  [][\A s \in Sessions :
       LET o == ops[s]["m"]
           n == ops'[s]["m"]
       IN /\ ( /\ o.kind = "release" /\ o.pc = "got" /\ o.reads = 1
               /\ o.resp = StaleAcquired(s)
               /\ currentState[s] = ENQUEUED
               /\ wsError[s] = "none"
               /\ n # o )
             => /\ n.kind = "release" /\ n.err = "none"
                /\ currentState'[s] = ENQUEUED
                /\ lockId'[s] = lockId[s]
                /\ lastClose' = lastClose
                /\ (responseQueue[s] # <<>> /\ Head(responseQueue[s]) \in ResponseMessage)
                     => /\ n.pc = "got"
                        /\ n.reads = 2
                        /\ n.resp = Head(responseQueue[s])
                        /\ responseQueue'[s] = Tail(responseQueue[s])
                /\ responseQueue[s] = <<>>
                     => /\ n.pc = "wait"
                        /\ n.reads = 1
                        /\ listeners'[s] = Append(listeners[s], "m")
          /\ ( /\ o.kind = "release" /\ o.pc = "got" /\ o.reads = 2
               /\ o.resp = ReleaseAck(s)
               /\ n # o )
             => /\ n.pc = "done" /\ n.err = "none"
                /\ currentState'[s] = READY
                /\ lockId'[s] = lockId[s]
                /\ lastClose' = lastClose
  ]_vars

\* A release() has settled without error after discarding a stale ACQUIRED.
C2_Witness ==
  \E s \in Sessions :
    /\ ops[s]["m"].kind = "release"
    /\ ops[s]["m"].pc = "done"
    /\ ops[s]["m"].reads = 2
    /\ ops[s]["m"].err = "none"
    /\ currentState[s] = READY

\* C3: with every call awaited before the next, against the lock server, no
\* call fails other than by a usage error; a lock() that settles leaves lockId
\* defined, an acquire() that settles leaves lockId as it was and the state
\* ACQUIRED, and a release() that settles leaves the state READY.
C3_LockAcquireReleaseCycle ==
  [][\A s \in Sessions :
       /\ \A k \in Slots :
            ops'[s][k].err \in UsageErrors \cup {"none"}
       /\ (Settles(s, "m") /\ ops[s]["m"].kind = "lock")
            => /\ lockId'[s] # 0
               /\ currentState'[s] \in {ENQUEUED, ACQUIRED}
       /\ (Called(s, "a") \/ Settles(s, "a"))
            => /\ lockId'[s] = lockId[s]
               /\ (ops'[s]["a"].pc = "done" /\ ops'[s]["a"].err = "none")
                    => currentState'[s] = ACQUIRED
       /\ (Settles(s, "m") /\ ops[s]["m"].kind = "release")
            => /\ currentState'[s] = READY
               /\ lockId'[s] = lockId[s]
  ]_vars

\* A session has locked, acquired and released, and is READY again.
C3_Witness ==
  \E s \in Sessions :
    /\ ops[s]["m"].kind = "release"
    /\ ops[s]["m"].pc = "done"
    /\ ops[s]["m"].err = "none"
    /\ ops[s]["m"].reads = 1
    /\ currentState[s] = READY
    /\ lockId[s] # 0
    /\ holder = "none"
    /\ waitq = <<>>

\* acquire() of session s is in progress and the server has granted, or is
\* about to grant, the resource to s.
AcquireDue(s) ==
  /\ ops[s]["a"].kind = "acquire"
  /\ ops[s]["a"].pc \in {"wait", "got"}
  /\ currentState[s] = ENQUEUED
  /\ \/ holder = s
     \/ holder = "none" /\ waitq # <<>> /\ Head(waitq) = s

AcquireDone(s) ==
  /\ ops[s]["a"].kind = "acquire"
  /\ ops[s]["a"].pc = "done"
  /\ ops[s]["a"].err = "none"
  /\ currentState[s] = ACQUIRED

C5_ProtocolErrorClosesAbnormally ==
  [][\A s \in Sessions :
       /\ \A k \in Slots :
            (ops[s][k].err \notin ProtocolErrors /\ ops'[s][k].err \in ProtocolErrors)
              => /\ lastClose'[s] = WS_ABNORMAL_CLOSE
                 /\ lastClose'[s] # WS_NORMAL_CLOSE
                 /\ ws'[s] # "open"
                 /\ ops'[s][k].pc = "done"
       /\ LET o == ops[s]["m"]
              a == ops[s]["a"]
          IN /\ ( /\ o.pc = "got" /\ ops'[s]["m"] # o
                  /\ wsError[s] = "none"
                  /\ \/ o.kind = "release" /\ o.resp.id # lockId[s]
                     \/ o.kind = "lock" /\ o.resp.action # LOCK
                     \/ o.kind = "lock" /\ o.resp.state = READY )
                => ops'[s]["m"].err \in ProtocolErrors
             /\ ( /\ a.pc = "got" /\ ops'[s]["a"] # a
                  /\ \/ a.resp.action # LOCK
                     \/ a.resp.state # ACQUIRED
                     \/ lockId[s] # 0 /\ a.resp.id # lockId[s] )
                => ops'[s]["a"].err \in ProtocolErrors
  ]_vars

\* A release() has failed on a response with a foreign id.
C5_Witness ==
  \E s \in Sessions :
    /\ ops[s]["m"].kind = "release"
    /\ ops[s]["m"].pc = "done"
    /\ ops[s]["m"].err = "UnexpectedId"
    /\ lastClose[s] = WS_ABNORMAL_CLOSE

\* acquire() is called in this step on a connected session whose state is
\* ACQUIRED and whose transport has reported no error.
AcquireCalledAcquired(s) ==
  /\ Called(s, "a")
  /\ currentState[s] = ACQUIRED
  /\ ws[s] # "none"
  /\ wsError[s] = "none"

\* What such a call leaves alone.
AcquireFrame(s) ==
  /\ ops'[s]["a"].pc = "done"
  /\ ops'[s]["a"].err = "none"
  /\ outbox' = outbox
  /\ responseQueue' = responseQueue
  /\ listeners' = listeners
  /\ currentState' = currentState
  /\ lockId' = lockId

C7_LockUsageError ==
  [][\A s \in Sessions : \A n \in 0..1 :
       ( /\ LockCall(s, n)
         /\ wsError[s] = "none"
         /\ (n = 0 \/ currentState[s] # READY) )
       => /\ ops'[s]["m"].kind = "lock"
          /\ ops'[s]["m"].pc = "done"
          /\ ops'[s]["m"].err \in UsageErrors
          /\ outbox' = outbox
          /\ responseQueue' = responseQueue
          /\ listeners' = listeners
  ]_vars

\* A lock() has been refused on a connected session that is not READY.
C7_Witness ==
  \E s \in Sessions :
    /\ ops[s]["m"].kind = "lock"
    /\ ops[s]["m"].err = "CannotLock"
    /\ currentState[s] # READY
    /\ ws[s] = "open"

\* C8: release() in state READY, on a session whose transport has reported no
\* error, fails at once with a usage error and sends no RELEASE request.
C8_ReleaseUsageError ==
  [][\A s \in Sessions :
       ( /\ ReleaseCall(s)
         /\ wsError[s] = "none"
         /\ currentState[s] = READY )
       => /\ ops'[s]["m"].kind = "release"
          /\ ops'[s]["m"].pc = "done"
          /\ ops'[s]["m"].err \in UsageErrors
          /\ outbox' = outbox
          /\ responseQueue' = responseQueue
          /\ listeners' = listeners
  ]_vars

\* A release() has been refused on a connected session that is READY.
C8_Witness ==
  \E s \in Sessions :
    /\ ops[s]["m"].kind = "release"
    /\ ops[s]["m"].err = "CannotRelease"
    /\ currentState[s] = READY
    /\ ws[s] = "open"

\* C9: a lock(), acquire(), release() or close() called while a transport
\* error is latched fails at once with that error, sends nothing, closes
\* nothing and consumes no queued message.
C9_LatchedErrorFailsFast ==
  [][\A s \in Sessions : \A k \in Slots :
       (Called(s, k) /\ wsError[s] # "none")
       => /\ ops'[s][k].pc = "done"
          /\ ops'[s][k].err = wsError[s]
          /\ outbox' = outbox
          /\ responseQueue' = responseQueue
          /\ listeners' = listeners
          /\ lastClose' = lastClose
          /\ ws' = ws
          /\ currentState' = currentState
          /\ lockId' = lockId
  ]_vars

\* A call has failed with the latched error while a message was queued.
C9_Witness ==
  \E s \in Sessions : \E k \in Slots :
    /\ ops[s][k].pc = "done"
    /\ ops[s][k].err \in TransportErrors
    /\ ops[s][k].err = wsError[s]
    /\ ops[s][k].reads = 0
    /\ responseQueue[s] # <<>>

\* C10: once transportError is set, no later transport event replaces it.
C10_FirstErrorSticks ==
  [][\A s \in Sessions :
       wsError[s] # "none" => wsError'[s] = wsError[s]
  ]_vars

\* The state the specification gives a session that has no transport; STATE
\* has no such member.
NOT_CONNECTED == "not_connected"

\* close() is called in this step.
CloseCalled(s) == ops[s]["m"].pc = "idle" /\ ops'[s]["m"].kind = "close"

\* C11: close() on a connected session whose transport has reported no error
\* closes the transport with the normal code and leaves the session with state
\* NOT_CONNECTED, an empty queue and no lockId; close() on a session that has
\* never connected does not fail.
C11_CloseResetsSession ==
  [][\A s \in Sessions :
       CloseCalled(s) =>
         IF ws[s] = "none"
         THEN ops'[s]["m"].err = "none"
         ELSE wsError[s] = "none"
                => /\ lastClose'[s] = WS_NORMAL_CLOSE
                   /\ currentState'[s] = NOT_CONNECTED
                   /\ responseQueue'[s] = <<>>
                   /\ lockId'[s] = 0
  ]_vars

\* The event loop runs every queued continuation, and a socket that is closing
\* or has failed reports its close.
PeerFairness ==
  \A s \in Peers :
    /\ WF_vars(ClientStep(s))
    /\ WF_vars(OnClose(s))

FairSpec == Spec /\ PeerFairness

\* The call in slot k of session s is suspended in waitForResponse().
Blocked(s, k) == ops[s][k].pc = "wait"

\* C12: an operation that is waiting for a message when the transport has
\* latched an error (after close(), an error event or a close event) eventually
\* fails with a transport error.
C12_BlockedOperationFails ==
  \A s \in Sessions : \A k \in Slots :
    (Blocked(s, k) /\ wsError[s] # "none")
      ~> (ops[s][k].pc = "done" /\ ops[s][k].err \in TransportErrors)

\* lock() of session s settles successfully in this step.
LockSucceeds(s) ==
  /\ Settles(s, "m")
  /\ ops[s]["m"].kind = "lock"
  /\ ops'[s]["m"].err = "none"

\* What a successful lock() records: the id and the state of its response.
LockRecords(s) ==
  /\ lockId'[s] = ops[s]["m"].resp.id
  /\ currentState'[s] = ops[s]["m"].resp.state
  /\ currentState'[s] \in {ENQUEUED, ACQUIRED}

Released(s) ==
  /\ currentState[s] = READY
  /\ lockId[s] # 0
  /\ \A k \in Slots : ops[s][k].pc \in {"idle", "done"}

\* Nothing at the server or on the way to session s can make s acquired.
NothingGranted(s) ==
  /\ holder' # s
  /\ \A i \in 1..Len(waitq') : waitq'[i] # s
  /\ inflight'[s] = <<>>
  /\ responseQueue'[s] = <<>>

\* C14: with every call awaited, a release() that settles on a session that is
\* still ENQUEUED succeeds and leaves the session READY with nothing granted to
\* it; and when afterwards another session's release() settles, that release()
\* succeeds too and the first session is still READY with nothing granted.
C14_ReleaseWithoutAcquire ==
  [][\A s \in Sessions :
       /\ ( /\ Settles(s, "m")
            /\ ops[s]["m"].kind = "release"
            /\ currentState[s] = ENQUEUED )
          => /\ ops'[s]["m"].err = "none"
             /\ currentState'[s] = READY
             /\ NothingGranted(s)
       /\ \A u \in Sessions \ {s} :
            ( /\ Released(s)
              /\ Settles(u, "m")
              /\ ops[u]["m"].kind = "release" )
            => /\ ops'[u]["m"].err = "none"
               /\ currentState'[u] = READY
               /\ currentState'[s] = READY
               /\ NothingGranted(s)
  ]_vars

\* The session that locked second has released while the first, which has made
\* no further call, still holds the resource: it was never granted it.
C14_Witness ==
  \E s, u \in Sessions :
    /\ s # u
    /\ lockId[u] = 1
    /\ currentState[u] = ACQUIRED
    /\ holder = u
    /\ BothIdle(u)
    /\ lockId[s] = 2
    /\ ops[s]["m"].kind = "release"
    /\ ops[s]["m"].pc = "done"
    /\ ops[s]["m"].err = "none"
    /\ ops[s]["a"].kind = "none"
    /\ currentState[s] = READY

\* The other state the specification names and STATE lacks.
CONNECTING == "connecting"

\* The edges of the specification's state machine, with the operation that may
\* take each of them.
StateEdge(s) ==
  LET a == currentState[s]
      b == currentState'[s]
      m == ops[s]["m"].kind
  IN \/ a = NOT_CONNECTED /\ b = CONNECTING /\ ws[s] = "none" /\ ws'[s] = "connecting"
     \/ a = CONNECTING /\ b = READY /\ ws[s] = "connecting" /\ ws'[s] = "open"
     \/ a = READY /\ b \in {ENQUEUED, ACQUIRED} /\ m = "lock"
     \/ a = ENQUEUED /\ b = ACQUIRED /\ ops[s]["a"].kind = "acquire"
     \/ a \in {ENQUEUED, ACQUIRED} /\ b = READY /\ m = "release"
     \/ b = NOT_CONNECTED /\ CloseCalled(s)

\* C15: a session starts in NOT_CONNECTED, its state is always one of the five
\* states, connect() takes it to CONNECTING and then READY, close() takes it
\* to NOT_CONNECTED, and every change of state follows an edge of the state
\* machine.
C15_StateMachine ==
  [][\A s \in Sessions :
       /\ ws[s] = "none" => currentState[s] = NOT_CONNECTED
       /\ currentState'[s] \in {NOT_CONNECTED, CONNECTING, READY, ENQUEUED, ACQUIRED}
       /\ currentState'[s] # currentState[s] => StateEdge(s)
       /\ (ws[s] = "none" /\ ws'[s] = "connecting") => currentState'[s] = CONNECTING
       /\ (CloseCalled(s) /\ ops'[s]["m"].err = "none")
            => currentState'[s] = NOT_CONNECTED
  ]_vars

\* The call in slot k of session s examines the response it holds in this step.
Examines(s, k) == ops[s][k].pc = "got" /\ ops'[s][k] # ops[s][k]

\* C16: when lock() examines its response, with no transport error latched, it
\* succeeds if the action is LOCK and the state is ENQUEUED or ACQUIRED, and
\* otherwise (action RELEASE, or state READY) fails with a protocol error and
\* leaves state and lockId as they were.
C16_LockChecksResponse ==
  [][\A s \in Sessions :
       ( /\ Examines(s, "m")
         /\ ops[s]["m"].kind = "lock"
         /\ wsError[s] = "none" )
       => LET r == ops[s]["m"].resp
          IN /\ ops'[s]["m"].pc = "done"
             /\ IF r.action = LOCK /\ r.state \in {ENQUEUED, ACQUIRED}
                THEN /\ ops'[s]["m"].err = "none"
                     /\ currentState'[s] = r.state
                ELSE /\ ops'[s]["m"].err \in ProtocolErrors
                     /\ currentState'[s] = currentState[s]
                     /\ lockId'[s] = lockId[s]
  ]_vars

\* A lock() has failed on a response whose state is READY.
C16_Witness ==
  \E s \in Sessions :
    /\ ops[s]["m"].kind = "lock"
    /\ ops[s]["m"].pc = "done"
    /\ ops[s]["m"].err = "UnexpectedState"
    /\ currentState[s] = READY
    /\ lastClose[s] = WS_ABNORMAL_CLOSE

\* acquire() accepts message r: a LOCK message with state ACQUIRED whose id is
\* the session's lockId when one is set.
AcquireAccepts(s, r) ==
  /\ r.action = LOCK
  /\ r.state = ACQUIRED
  /\ (lockId[s] # 0 => r.id = lockId[s])

\* What acquire() does with the message it examines, and that it reads one
\* when it is called in a state other than ACQUIRED; ret is the value its
\* promise resolves with on success.
AcquireChecks(s, ret) ==
  /\ ( /\ Called(s, "a")
       /\ currentState[s] # ACQUIRED
       /\ checkError(s) = "none" )
     => ops'[s]["a"].pc \in {"wait", "got"}
  /\ ( /\ Examines(s, "a")
       /\ ops[s]["a"].kind = "acquire" )
     => LET r == ops[s]["a"].resp
        IN /\ ops'[s]["a"].pc = "done"
           /\ IF AcquireAccepts(s, r)
              THEN /\ ops'[s]["a"].err = "none"
                   /\ ops'[s]["a"].ret = ret
                   /\ currentState'[s] = ACQUIRED
                   /\ lockId'[s] = r.id
              ELSE /\ ops'[s]["a"].err \in ProtocolErrors
                   /\ currentState'[s] = currentState[s]
                   /\ lockId'[s] = lockId[s]

C18_OneConsumerWoken ==
  \A s \in Sessions :
    /\ Len(listeners[s]) <= 1
    /\ Len(woken[s]) <= 1
    /\ \A k \in Slots : ops[s][k].err # "NoResponse"

\* C19: the queue changes only by an arrival at its end or by the removal of
\* its head; the head that is removed is handed to the operation that removed
\* it; and an operation subscribes to the wake-up signal only when it found the
\* queue empty.
C19_ConsumedInArrivalOrder ==
  [][\A s \in Sessions :
       LET q == responseQueue[s]
       IN /\ responseQueue'[s] # q
               => \/ /\ Len(responseQueue'[s]) = Len(q) + 1
                     /\ SubSeq(responseQueue'[s], 1, Len(q)) = q
                  \/ /\ q # <<>>
                     /\ responseQueue'[s] = Tail(q)
                     /\ \E k \in Slots : /\ ops'[s][k] # ops[s][k]
                                         /\ ops'[s][k].pc = "got"
                                         /\ ops'[s][k].resp = Head(q)
          /\ \A k \in Slots :
               (ops[s][k].pc # "wait" /\ ops'[s][k].pc = "wait") => q = <<>>
  ]_vars

\* What JSON.parse returns for the frames that parse.
Decoded == {JSONparse(p) : p \in Payloads \ {Malformed}}

\* C20: a frame that does not parse latches the decode error and changes
\* neither the queue nor the waiters; every element of the queue is a value
\* that JSON.parse returned.
C20_MalformedNeverQueued ==
  /\ [][\A s \in Sessions :
          OnMessage(s, Malformed)
            => /\ wsError'[s] = "Decode"
               /\ responseQueue' = responseQueue
               /\ listeners' = listeners
               /\ woken' = woken
     ]_vars
  /\ [](\A s \in Sessions : \A i \in 1..Len(responseQueue[s]) :
          responseQueue[s][i] \in Decoded)

\* A malformed frame has arrived while an operation was waiting: the error is
\* latched, the queue is empty and the operation still waits.
C20_Witness ==
  \E s \in Sessions :
    /\ wsError[s] = "Decode"
    /\ ws[s] = "open"
    /\ responseQueue[s] = <<>>
    /\ listeners[s] # <<>>

LockOps == {"lock", "acquire", "release"}

\* lock(), acquire() or release() in slot k of session s fails in this step.
Fails(s, k) ==
  /\ ops[s][k].pc # "done"
  /\ ops'[s][k].pc = "done"
  /\ ops'[s][k].kind \in LockOps
  /\ ops'[s][k].err # "none"

\* The state and the lock id of session s when the operation that is in slot k,
\* or is called into it in this step, was called.
AtCall(s, k) ==
  IF ops[s][k].pc = "idle" THEN <<currentState[s], lockId[s]>> ELSE ops[s][k].at

NoneInProgress(s) == \A k \in Slots : ops[s][k].pc \in {"idle", "done"}

\* Nothing is queued for session s and nothing is on the way to it.
NothingPending(s) == responseQueue[s] = <<>> /\ inflight[s] = <<>>

\* C22: with every call awaited, against the lock server, a session that is
\* READY with no call in progress has an empty queue and no message in flight;
\* and the response a lock() examines is the server's reply to that lock()'s
\* own request: a LOCK response with the id the server gave that request.
C22_LockReadsItsOwnReply ==
  /\ [](\A s \in Sessions :
          (NoneInProgress(s) /\ currentState[s] = READY) => NothingPending(s))
  /\ [][\A s \in Sessions :
          ( /\ Examines(s, "m")
            /\ ops[s]["m"].kind = "lock" )
          => /\ ops[s]["m"].resp = Response(srvId[s], LOCK, ops[s]["m"].resp.state)
             /\ ops[s]["m"].reads = 1
             /\ ops[s]["m"].at = <<READY, lockId[s]>>
             /\ srvId[s] # lockId[s]
             /\ lockId'[s] = srvId[s]
     ]_vars

\* A session is READY again after a release() that consumed both the ACQUIRED
\* push and the RELEASE response, and it has started no lock since.
C22_Witness ==
  \E s \in Sessions :
    /\ ops[s]["m"].kind = "release"
    /\ ops[s]["m"].pc = "done"
    /\ ops[s]["m"].err = "none"
    /\ ops[s]["m"].reads = 2
    /\ ops[s]["a"].pc = "idle"
    /\ currentState[s] = READY
    /\ NothingPending(s)

\* release() of session s has been called and has not settled.
Releasing(s) ==
  /\ ops[s]["m"].kind = "release"
  /\ ops[s]["m"].pc \in {"wait", "got"}

\* isAcquired()
isAcquired(s) == currentState[s] = ACQUIRED

\* C23: against the server that grants the resource to one session at a time,
\* a session that is ACQUIRED is the server's holder under its current lock id,
\* and two sessions are never ACQUIRED together; a session whose release() is
\* in progress, which the server may already have handled, is left aside.
C23_NeverBothAcquired ==
  /\ \A s \in Sessions :
       (isAcquired(s) /\ ~Releasing(s)) => (holder = s /\ lockId[s] = srvId[s])
  /\ \A s, u \in Sessions :
       (isAcquired(s) /\ isAcquired(u) /\ s # u) => (Releasing(s) \/ Releasing(u))

====
